---- MODULE Spec2Model ----
(***************************************************************************)
(* Model of cf-preview-cleaner (cwc): the Cloudflare API client, its       *)
(* batch deletion routines, the wrangler wrapper and the delete commands.  *)
(*                                                                         *)
(* Identifiers are opaque: the code never compares or inspects them, so a  *)
(* remote listing of n resources is modelled as <<1, ..., n>>, newest      *)
(* (active) first.  A message is a sequence of text chunks: a chunk is a   *)
(* run of characters holding neither whitespace boundaries that matter to  *)
(* the sanitizer nor the word "Bearer", except for the chunks named in     *)
(* BearerWords and Whitespace.                                             *)
(***************************************************************************)
EXTENDS Integers, Sequences, FiniteSets, TLC

\* ------------------------------------------------------------- bounds ----
MaxList == 5        \* longest remote listing
MaxLen == 2         \* longest identifier list a direct caller passes
MaxFaults == 2      \* most non-success answers of the remote to a direct call
MaxCmdFaults == 1   \* most non-success answers of the remote to a command
MaxClientCalls == 2 \* most single-resource calls made in a row on one client
MaxBatchCalls == 2  \* most batch invocations made in a row on one client
MaxPicks == 2       \* most entries the selection prompt resolves to

\* ---------------------------------------------------------- constants ----
requestDelay == 200
DefaultRetryAfter == 60
NoHeader == "null"  \* response.headers.get('Retry-After') === null
Undefined == -1     \* the JavaScript value undefined, where a number may stand
NaN == -2           \* the JavaScript value NaN

\* --------------------------------------------------------- messages ------
BearerWords == {"Bearer", "bearer", "BEARER"}
Whitespace == {" ", "\n"}
Token == "tok_SECRET"
Redacted == <<"Bearer", " ", "[REDACTED]">>

MsgRateLimit == <<"Rate limit exceeded. Please wait before retrying.">>
MsgPermission == <<"Permission denied. Please check your API token has the required permissions (Workers Scripts: Read and Edit).">>
MsgNotFound == <<"Resource not found. Please check the script name and account ID.">>
MsgParsePrefix == <<"Failed to parse API response:", " ">>
MsgUnknownApi == <<"Unknown API error">>
MsgWranglerPrefix == <<"Failed to delete version using wrangler:", " ">>

\* Length of the longest run of chunks of m, from position p on, that are
\* all in (inWs = TRUE) or all outside (inWs = FALSE) Whitespace.
RECURSIVE RunLen(_, _, _)
RunLen(m, p, inWs) ==
  IF p > Len(m) \/ ((m[p] \in Whitespace) # inWs) THEN 0
  ELSE 1 + RunLen(m, p + 1, inWs)

\* /Bearer\s+\S+/gi matched at position p of m: the number of chunks the
\* match covers, 0 when there is no match at p.
BearerMatch(m, p) ==
  IF m[p] \notin BearerWords THEN 0
  ELSE LET ws == RunLen(m, p + 1, TRUE)
           tk == RunLen(m, p + 1 + ws, FALSE)
       IN IF ws >= 1 /\ tk >= 1 THEN 1 + ws + tk ELSE 0

RECURSIVE sanitizeFrom(_, _)
sanitizeFrom(m, p) ==
  IF p > Len(m) THEN <<>>
  ELSE LET n == BearerMatch(m, p)
       IN IF n > 0 THEN Redacted \o sanitizeFrom(m, p + n)
          ELSE <<m[p]>> \o sanitizeFrom(m, p + 1)

\* CloudflareAPI.sanitize
sanitize(message) == sanitizeFrom(message, 1)

Contains(m, chunk) == \E p \in 1..Len(m) : m[p] = chunk

\* ------------------------------------------------- remote responses ----
\* What fetch() resolves to: status, Retry-After header, whether the body
\* parses as JSON, the envelope's success flag and errors, the status text.
Http(status, header, parses, succ, errors, statusText) ==
  [kind |-> "http", status |-> status, retryAfter |-> header, parses |-> parses,
   success |-> succ, errors |-> errors, text |-> statusText]
\* fetch() rejecting with an Error carrying `message`.
Thrown(message) ==
  [kind |-> "throw", status |-> 0, retryAfter |-> NoHeader, parses |-> FALSE,
   success |-> FALSE, errors |-> <<>>, text |-> message]

BearerMsg == <<"Authorization:", " ", "Bearer", " ", Token>>
RetryAfterHeaders == {NoHeader, "0", "5", "120"}

RespOk == Http(200, NoHeader, TRUE, TRUE, <<>>, <<"OK">>)
Resp429(h) == Http(429, h, TRUE, FALSE, <<MsgRateLimit>>, <<"Too Many Requests">>)
Resp403 == Http(403, NoHeader, TRUE, FALSE, <<>>, <<"Forbidden">>)
Resp404 == Http(404, NoHeader, TRUE, FALSE, <<>>, <<"Not Found">>)
RespGarbage == Http(502, NoHeader, FALSE, FALSE, <<>>, <<"Bad Gateway">>)
RespApiError(errors) == Http(400, NoHeader, TRUE, FALSE, errors, <<"Bad Request">>)
Resp500Ok == Http(500, NoHeader, TRUE, TRUE, <<>>, <<"Internal Server Error">>)

FaultResponses ==
  {Resp429(h) : h \in RetryAfterHeaders}
    \cup {Resp403, Resp404, RespGarbage, Resp500Ok,
          RespApiError(<<BearerMsg>>), RespApiError(<<>>), Thrown(BearerMsg)}
Responses == {RespOk} \cup FaultResponses

\* parseInt(retryAfter, 10) on the header values the model sends.
parseInt(h) ==
  CASE h = "0" -> 0
    [] h = "5" -> 5
    [] h = "120" -> 120
    [] OTHER -> NaN

\* JavaScript truthiness of a number | undefined.
Truthy(x) == x \notin {Undefined, NaN, 0}

\* ---------------------------------------------------------- the client --
Returned == [ok |-> TRUE, cls |-> "", message |-> <<>>, statusCode |-> Undefined,
             retryAfter |-> Undefined]
Throw(cls, message, statusCode, retryAfter) ==
  [ok |-> FALSE, cls |-> cls, message |-> message, statusCode |-> statusCode,
   retryAfter |-> retryAfter]

\* new RateLimitError(retryAfter)
RateLimitError(retryAfter) == Throw("RateLimitError", MsgRateLimit, 429, retryAfter)
\* new CloudflareAPIError(message, statusCode)
CloudflareAPIError(message, statusCode) ==
  Throw("CloudflareAPIError", message, statusCode, Undefined)

requestBodyFirst(resp) ==
  IF resp.kind = "throw" THEN Throw("Error", resp.text, Undefined, Undefined)
  ELSE IF ~resp.parses THEN
    CloudflareAPIError(sanitize(MsgParsePrefix \o resp.text), resp.status)
  ELSE IF ~resp.success THEN
    CloudflareAPIError(
      sanitize(IF Len(resp.errors) > 0 /\ resp.errors[1] # <<>>
               THEN resp.errors[1] ELSE MsgUnknownApi),
      resp.status)
  ELSE Returned
\* CloudflareAPI.request: what the call returns or throws for a response.
request(resp) ==
  IF resp.kind = "throw" THEN Throw("Error", resp.text, Undefined, Undefined)
  ELSE IF resp.status = 429 THEN
    RateLimitError(IF resp.retryAfter # NoHeader /\ resp.retryAfter # ""
                   THEN parseInt(resp.retryAfter) ELSE Undefined)
  ELSE IF resp.status = 403 THEN CloudflareAPIError(MsgPermission, 403)
  ELSE IF resp.status = 404 THEN CloudflareAPIError(MsgNotFound, 404)
  ELSE IF ~resp.parses THEN
    CloudflareAPIError(sanitize(MsgParsePrefix \o resp.text), resp.status)
  ELSE IF ~resp.success THEN
    CloudflareAPIError(
      sanitize(IF Len(resp.errors) > 0 /\ resp.errors[1] # <<>>
               THEN resp.errors[1] ELSE MsgUnknownApi),
      resp.status)
  ELSE Returned

formatErrorUnknown(error) == <<"Unknown error">>
\* CloudflareAPI.formatError (every thrown value here is an Error)
formatError(error) == sanitize(error.message)

Succeeded == [success |-> TRUE, error |-> <<>>, isRateLimit |-> FALSE,
              retryAfter |-> Undefined]

tryDeleteRetryAll(out) ==
  IF out.ok THEN Succeeded
  ELSE [success |-> FALSE, error |-> formatError(out), isRateLimit |-> TRUE,
        retryAfter |-> Undefined]
\* CloudflareAPI.tryDelete: the result object for what deleteDeployment did.
\* This revision's result carries no retryAfter.
tryDelete(out) ==
  IF out.ok THEN Succeeded
  ELSE [success |-> FALSE, error |-> formatError(out),
        isRateLimit |-> (out.cls = "RateLimitError"), retryAfter |-> Undefined]

\* CloudflareAPI.tryDeleteVersion: as tryDelete, and keeps retryAfter.
tryDeleteVersion(out) ==
  IF out.ok THEN Succeeded
  ELSE [success |-> FALSE, error |-> formatError(out),
        isRateLimit |-> (out.cls = "RateLimitError"),
        retryAfter |-> IF out.cls = "RateLimitError" THEN out.retryAfter
                       ELSE Undefined]

waitTimeFloor(retryAfter) ==
  (IF Truthy(retryAfter) /\ retryAfter > DefaultRetryAfter THEN retryAfter
   ELSE DefaultRetryAfter) * 1000
\* (retryAfter || 60) * 1000
waitTime(retryAfter) ==
  (IF Truthy(retryAfter) THEN retryAfter ELSE DefaultRetryAfter) * 1000

\* ------------------------------------------------ the wrangler wrapper --
\* What execAsync(command) does: resolves with stderr, or rejects.
Exec(rejected, stderr) == [kind |-> "exec", rejected |-> rejected, stderr |-> stderr]
CommandFailed == <<"Command failed: npx -y wrangler@latest versions delete", "\n">>
WarnWords == {"warning", "Warning", "WARN", "warn"}

ExecOk == Exec(FALSE, <<>>)
ExecWarn == Exec(FALSE, <<"WARN", " ", "update available">>)
ExecFaults ==
  {ExecWarn,
   Exec(FALSE, <<"Error:", " ", "version", " ", "not", " ", "found">>),
   Exec(TRUE, <<"Error:", " ">> \o BearerMsg),
   Exec(TRUE, <<"ENOENT">>)}
ExecOutcomes == {ExecOk} \cup ExecFaults

\* stderr.trim().length > 0
TrimNonEmpty(m) == \E p \in 1..Len(m) : m[p] \notin Whitespace
HasWarn(m) == \E p \in 1..Len(m) : m[p] \in WarnWords

\* errorMessage.match(/Error: (.+)/) at position p: "Error:", a space, and
\* at least one character before the end of the line.
ErrorMatchAt(m, p) ==
  /\ m[p] = "Error:" /\ p + 2 <= Len(m) /\ m[p + 1] = " " /\ m[p + 2] # "\n"
RECURSIVE LineLen(_, _)
LineLen(m, p) == IF p > Len(m) \/ m[p] = "\n" THEN 0 ELSE 1 + LineLen(m, p + 1)

\* The message of the Error the catch block of deleteVersion rethrows.
wranglerMessage(errorMessage) ==
  IF Contains(errorMessage, "Error:") THEN
    LET at == {p \in 1..Len(errorMessage) : ErrorMatchAt(errorMessage, p)}
    IN IF at = {} THEN errorMessage
       ELSE LET p == CHOOSE q \in at : \A r \in at : q <= r
            IN SubSeq(errorMessage, p + 2, p + 1 + LineLen(errorMessage, p + 2))
  ELSE MsgWranglerPrefix \o errorMessage

\* WranglerWrapper.deleteVersion: what the call returns or throws.
deleteVersion(x) ==
  IF x.rejected THEN
    Throw("Error", wranglerMessage(CommandFailed \o x.stderr), Undefined, Undefined)
  ELSE IF x.stderr # <<>> /\ ~HasWarn(x.stderr) /\ TrimNonEmpty(x.stderr) THEN
    Throw("Error", wranglerMessage(x.stderr), Undefined, Undefined)
  ELSE Returned

\* ------------------------------------------------------------- state -----
VARIABLES
  entry,     \* who runs: "harness" (a direct caller) or a command
  opts,      \* the command's options: all, dryRun, force
  listing,   \* the remote's ordered resource list, active first
  toDelete,  \* the command's local `toDelete`, as identifiers
  calls,     \* how many times a batch routine was invoked
  routine,   \* the batch routine running
  ids,       \* its input list
  i,         \* its loop index (0-based)
  attempt,   \* which delete request for ids[i] is outstanding
  result,    \* its local `result`
  success,   \* its local `success`
  failed,    \* its local `failed`
  pc,        \* where the run is suspended
  log,       \* the observable events so far
  faults,    \* non-success answers of the remote so far
  exitCode   \* the process's exit status, Running while it runs

vars == <<entry, opts, listing, toDelete, calls, routine, ids, i, attempt, result, success,
          failed, pc, log, faults, exitCode>>

Running == -1
Routines == {"deleteDeployments", "deleteVersions", "wranglerDeleteVersions"}
NoOpts == [all |-> FALSE, dryRun |-> FALSE, force |-> FALSE]

Iota(n) == [k \in 1..n |-> k]
SeqsUpTo(S, n) == UNION {[1..k -> S] : k \in 0..n}

EvList == [ev |-> "list"]
EvDelete(id) == [ev |-> "delete", id |-> id]
EvAnswer(id, resp) == [ev |-> "answer", id |-> id, resp |-> resp]
EvDelay(ms) == [ev |-> "delay", ms |-> ms]
EvProgress(completed, total, id) ==
  [ev |-> "progress", completed |-> completed, total |-> total, id |-> id]
EvPrompt(what) == [ev |-> "prompt", what |-> what]
EvError(message) == [ev |-> "error", message |-> message]
EvConfirmed(yes) == [ev |-> "confirmed", yes |-> yes]

\* ------------------------------------------------- the batch routines ---
\* logger.error(`Failed to delete ${result.failed.length} deployment(s):`)
FailedHeader(cmd, n) ==
  <<"Failed to delete", " ", ToString(n), " ",
    IF cmd = "deleteCommand" THEN "deployment(s):" ELSE "version(s):">>
\* logger.error(`- ${id.slice(0, 8)}...: ${error}`)
FailedLine(f) == <<"-", " ", ToString(f.id), "...:", " ">> \o f.error
RECURSIVE FailedLines(_)
FailedLines(fl) ==
  IF fl = <<>> THEN <<>>
  ELSE <<EvError(FailedLine(Head(fl)))>> \o FailedLines(Tail(fl))
\* What a command passes to logger.error after the batch: a header when
\* failed is not empty and, in versionsDeleteCommand, one line per failed
\* entry (deleteCommand prints those lines with console.log instead).
reportFailed(cmd, fl) ==
  IF cmd = "harness" \/ fl = <<>> THEN <<>>
  ELSE <<EvError(FailedHeader(cmd, Len(fl)))>>
         \o (IF cmd = "versionsDeleteCommand" THEN FailedLines(fl) ELSE <<>>)

ReturnZero(lg, fl) ==
  /\ pc' = IF entry = "harness" THEN "done" ELSE "exited"
  /\ log' = lg \o reportFailed(entry, fl)
  /\ exitCode' = IF entry = "harness" THEN exitCode ELSE 0
\* The routine returns {success, failed}; a command then reports and sets
\* the exit status (delete.ts 109-134, versions-list.ts 190-215).
Return(lg, fl) ==
  /\ pc' = IF entry = "harness" THEN "done" ELSE "exited"
  /\ log' = lg \o reportFailed(entry, fl)
  /\ exitCode' = IF entry = "harness" THEN exitCode
                 ELSE IF Len(fl) = 0 THEN 0 ELSE 1

BeginPauseFirst(r, in, lg) ==
  /\ calls' = calls + 1
  /\ routine' = r /\ ids' = in /\ i' = 0
  /\ success' = <<>> /\ failed' = <<>> /\ result' = Succeeded
  /\ IF Len(in) = 0
     THEN attempt' = 0 /\ Return(Append(lg, EvDelay(requestDelay)), <<>>)
     ELSE /\ attempt' = 1 /\ pc' = "req" /\ exitCode' = exitCode
          /\ log' = Append(lg, EvDelete(in[1]))
BeginKeepReport(r, in, lg) ==
  /\ calls' = calls + 1
  /\ routine' = r /\ ids' = in /\ i' = 0
  /\ success' = success /\ failed' = failed /\ result' = Succeeded
  /\ IF Len(in) = 0
     THEN attempt' = 0 /\ Return(lg, failed)
     ELSE /\ attempt' = 1 /\ pc' = "req" /\ exitCode' = exitCode
          /\ log' = Append(lg, EvDelete(in[1]))
\* The call of a batch routine, up to its first await.
Begin(r, in, lg) ==
  /\ calls' = calls + 1
  /\ routine' = r /\ ids' = in /\ i' = 0
  /\ success' = <<>> /\ failed' = <<>> /\ result' = Succeeded
  /\ IF Len(in) = 0
     THEN attempt' = 0 /\ Return(lg, <<>>)
     ELSE /\ attempt' = 1 /\ pc' = "req" /\ exitCode' = exitCode
          /\ log' = Append(lg, EvDelete(in[1]))

pushSuccessFront(sc, ok, id) == IF ok THEN <<id>> \o sc ELSE sc
\* if (result.success) success.push(id)
pushSuccess(sc, ok, id) == IF ok THEN Append(sc, id) ELSE sc
pushFailedFront(fl, ok, id, error) ==
  IF ok THEN fl ELSE <<[id |-> id, error |-> error]>> \o fl
pushFailedAlways(fl, ok, id, error) == Append(fl, [id |-> id, error |-> error])
\* else failed.push({ id, error })
pushFailed(fl, ok, id, error) ==
  IF ok THEN fl ELSE Append(fl, [id |-> id, error |-> error])
reportProgressCount(lg, ok, id) ==
  IF ok THEN Append(lg, EvProgress(Len(success) + 1, Len(ids), id)) ELSE lg
reportProgressAlways(lg, ok, id) == Append(lg, EvProgress(i + 1, Len(ids), id))
\* onProgress?.(i + 1, ids.length, id), on success only
reportProgress(lg, ok, id) ==
  IF ok THEN Append(lg, EvProgress(i + 1, Len(ids), id)) ELSE lg

FinishNoAwait(r, lg) ==
  LET id == ids[i + 1]
      fl == pushFailed(failed, r.success, id, r.error)
      lg1 == reportProgress(lg, r.success, id)
  IN /\ success' = pushSuccess(success, r.success, id)
     /\ failed' = fl /\ result' = r /\ i' = i + 1
     /\ UNCHANGED <<calls, routine, ids>>
     /\ IF i < Len(ids) - 1
        THEN /\ pc' = "req" /\ attempt' = 1
             /\ log' = Append(Append(lg1, EvDelay(requestDelay)), EvDelete(ids[i + 2]))
             /\ UNCHANGED exitCode
        ELSE attempt' = attempt /\ Return(lg1, fl)
FinishFailFast(r, lg) ==
  LET id == ids[i + 1]
      fl == pushFailed(failed, r.success, id, r.error)
      lg1 == reportProgress(lg, r.success, id)
  IN /\ success' = pushSuccess(success, r.success, id)
     /\ failed' = fl /\ result' = r
     /\ UNCHANGED <<calls, routine, ids, attempt>>
     /\ IF i < Len(ids) - 1 /\ r.success
        THEN /\ pc' = "pause" /\ log' = Append(lg1, EvDelay(requestDelay))
             /\ UNCHANGED <<i, exitCode>>
        ELSE i' = i + 1 /\ Return(lg1, fl)
\* The end of a loop body of CloudflareAPI.deleteDeployments/deleteVersions:
\* record the result, then the pause before the next identifier, or the
\* return after the last.
Finish(r, lg) ==
  LET id == ids[i + 1]
      fl == pushFailed(failed, r.success, id, r.error)
      lg1 == reportProgress(lg, r.success, id)
  IN /\ success' = pushSuccess(success, r.success, id)
     /\ failed' = fl /\ result' = r
     /\ UNCHANGED <<calls, routine, ids, attempt>>
     /\ IF i < Len(ids) - 1
        THEN /\ pc' = "pause" /\ log' = Append(lg1, EvDelay(requestDelay))
             /\ UNCHANGED <<i, exitCode>>
        ELSE i' = i + 1 /\ Return(lg1, fl)

FinishWranglerFailFast(out, lg) ==
  LET id == ids[i + 1]
      fl == pushFailed(failed, out.ok, id, out.message)
      lg1 == reportProgress(lg, out.ok, id)
  IN /\ success' = pushSuccess(success, out.ok, id)
     /\ failed' = fl /\ i' = i + 1
     /\ UNCHANGED <<calls, routine, ids, attempt, result>>
     /\ IF i + 1 < Len(ids) /\ out.ok
        THEN /\ pc' = "req" /\ log' = Append(lg1, EvDelete(ids[i + 2]))
             /\ UNCHANGED exitCode
        ELSE Return(lg1, fl)
\* WranglerWrapper.deleteVersions: record, then go on without a pause.
FinishWrangler(out, lg) ==
  LET id == ids[i + 1]
      fl == pushFailed(failed, out.ok, id, out.message)
      lg1 == reportProgress(lg, out.ok, id)
  IN /\ success' = pushSuccess(success, out.ok, id)
     /\ failed' = fl /\ i' = i + 1
     /\ UNCHANGED <<calls, routine, ids, attempt, result>>
     /\ IF i + 1 < Len(ids)
        THEN /\ pc' = "req" /\ log' = Append(lg1, EvDelete(ids[i + 2]))
             /\ UNCHANGED exitCode
        ELSE Return(lg1, fl)

\* A further delete request for the same identifier, issued at once.
Again(r, lg) ==
  /\ result' = r /\ attempt' = attempt + 1 /\ pc' = "req"
  /\ log' = Append(lg, EvDelete(ids[i + 1]))
  /\ UNCHANGED <<calls, routine, ids, i, success, failed, exitCode>>

\* await this.delay(waitTime) before the retry.
Backoff(r, ms, lg) ==
  /\ result' = r /\ pc' = "backoff" /\ log' = Append(lg, EvDelay(ms))
  /\ UNCHANGED <<calls, routine, ids, i, attempt, success, failed, exitCode>>

deleteDeploymentsUncaught(out, lg) ==
  IF attempt = 1 THEN
    LET r == tryDelete(out)
    IN IF ~r.success /\ r.isRateLimit THEN Again(r, lg) ELSE Finish(r, lg)
  ELSE IF attempt = 2 THEN
    IF ~out.ok /\ out.cls = "RateLimitError"
    THEN Backoff(result, waitTime(out.retryAfter), lg)
    ELSE IF ~out.ok
    THEN /\ pc' = "thrown" /\ log' = lg
         /\ UNCHANGED <<calls, routine, ids, i, attempt, result, success, failed, exitCode>>
    ELSE Finish(result, lg)
  ELSE Finish(tryDelete(out), lg)
\* CloudflareAPI.deleteDeployments (src/lib/cloudflare-api.ts), resumed
\* with the outcome `out` of the outstanding request.
deleteDeployments(out, lg) ==
  IF attempt = 1 THEN
    LET r == tryDelete(out)
    IN IF ~r.success /\ r.isRateLimit THEN Again(r, lg) ELSE Finish(r, lg)
  ELSE IF attempt = 2 THEN
    IF ~out.ok /\ out.cls = "RateLimitError"
    THEN Backoff(result, waitTime(out.retryAfter), lg)
    ELSE Finish(result, lg)
  ELSE Finish(tryDelete(out), lg)

\* CloudflareAPI.deleteVersions, resumed with the outcome `out`.
deleteVersions(out, lg) ==
  IF attempt = 1 THEN
    LET r == tryDeleteVersion(out)
    IN IF ~r.success /\ r.isRateLimit
       THEN Backoff(r, waitTime(r.retryAfter), lg)
       ELSE Finish(r, lg)
  ELSE Finish(tryDeleteVersion(out), lg)

IsFault(resp) == resp \notin {RespOk, ExecOk}
FaultBudget == IF entry = "harness" THEN MaxFaults ELSE MaxCmdFaults

\* The remote answers the outstanding delete request.
Respond(resp) ==
  /\ pc = "req"
  /\ IsFault(resp) => faults < FaultBudget
  /\ faults' = IF IsFault(resp) THEN faults + 1 ELSE faults
  /\ UNCHANGED <<entry, opts, listing, toDelete>>
  /\ LET lg == Append(log, EvAnswer(ids[i + 1], resp))
     IN CASE routine = "deleteDeployments" -> deleteDeployments(request(resp), lg)
          [] routine = "deleteVersions" -> deleteVersions(request(resp), lg)
          [] OTHER -> FinishWrangler(deleteVersion(resp), lg)

AnswersTo(r) == IF r = "wranglerDeleteVersions" THEN ExecOutcomes ELSE Responses

\* The backoff timer fires: the retry is issued.
BackoffEnds ==
  /\ pc = "backoff"
  /\ pc' = "req" /\ attempt' = attempt + 1
  /\ log' = Append(log, EvDelete(ids[i + 1]))
  /\ UNCHANGED <<entry, opts, listing, toDelete, calls, routine, ids, i, result, success, failed,
                 faults, exitCode>>

\* The pause timer fires: the loop goes on to the next identifier.
PauseEnds ==
  /\ pc = "pause"
  /\ pc' = "req" /\ i' = i + 1 /\ attempt' = 1
  /\ log' = Append(log, EvDelete(ids[i + 2]))
  /\ UNCHANGED <<entry, opts, listing, toDelete, calls, routine, ids, result, success, failed,
                 faults, exitCode>>

\* A direct caller invokes a batch routine on a list of its choice.
Call(r, in) ==
  /\ pc = "idle" /\ entry = "harness"
  /\ Begin(r, in, log)
  /\ UNCHANGED <<entry, opts, listing, toDelete, faults>>

Ids == 1..MaxLen

Init ==
  /\ entry = "harness" /\ opts = NoOpts /\ listing = Iota(MaxLen)
  /\ toDelete = <<>> /\ calls = 0
  /\ routine = "deleteDeployments" /\ ids = <<>> /\ i = 0 /\ attempt = 0
  /\ result = Succeeded /\ success = <<>> /\ failed = <<>>
  /\ pc = "idle" /\ log = <<>> /\ faults = 0 /\ exitCode = Running

Next ==
  \/ \E r \in Routines, in \in SeqsUpTo(Ids, MaxLen) : Call(r, in)
  \/ \E resp \in AnswersTo(routine) : Respond(resp)
  \/ BackoffEnds
  \/ PauseEnds

Spec == Init /\ [][Next]_vars

\* --------------------------------------------------------- commands ----
Commands == {"deleteCommand", "versionsDeleteCommand"}
\* api.deleteDeployments in deleteCommand, api.deleteVersions in
\* versionsDeleteCommand.
RoutineOf(cmd) ==
  IF cmd = "deleteCommand" THEN "deleteDeployments" ELSE "deleteVersions"

BatchVars == <<calls, routine, ids, i, attempt, result, success, failed>>

\* return / process.exit(code) before any batch ran.
Exit(code, lg) ==
  /\ pc' = "exited" /\ exitCode' = code /\ log' = lg
  /\ UNCHANGED BatchVars

\* The entries of `list` at the positions in S, in list order.
RECURSIVE Pick(_, _, _)
Pick(list, S, p) ==
  IF p > Len(list) THEN <<>>
  ELSE (IF p \in S THEN <<list[p]>> ELSE <<>>) \o Pick(list, S, p + 1)

NothingEligibleEmptyOnly(list) == Len(list) = 0
\* deployments.length === 0, deployments.length === 1: the command returns.
NothingEligible(list) == Len(list) = 0 \/ Len(list) = 1

DeletableFromActive(list) == list
\* deployments.slice(1)
Deletable(list) == SubSeq(list, 2, Len(list))

\* The choices of the checkbox that are not disabled: all but the first.
Eligible(list) == {list[k] : k \in 2..Len(list)}
\* selectDeploymentsToDelete / selectVersionsToDelete: what the prompt
\* resolves to. The commands take the resolved array as it is, so it is
\* any list of enabled choices, in any order and with repetitions.
Selectable(list) == SeqsUpTo(Eligible(list), MaxPicks)

ChosenIgnoringDryRun(sel, lg) ==
  /\ toDelete' = sel
  /\ IF Len(sel) = 0 THEN Exit(0, lg)
     ELSE IF opts.force THEN Begin(RoutineOf(entry), sel, lg)
     ELSE /\ pc' = "confirm" /\ log' = Append(lg, EvPrompt("confirm"))
          /\ UNCHANGED <<BatchVars, exitCode>>
\* The command from `toDelete` being known (delete.ts 67-107): nothing
\* selected, dry run, the confirmation, the batch.
Chosen(sel, lg) ==
  /\ toDelete' = sel
  /\ IF Len(sel) = 0 THEN Exit(0, lg)
     ELSE IF opts.dryRun THEN Exit(0, lg)
     ELSE IF opts.force THEN Begin(RoutineOf(entry), sel, lg)
     ELSE /\ pc' = "confirm" /\ log' = Append(lg, EvPrompt("confirm"))
          /\ UNCHANGED <<BatchVars, exitCode>>

\* The command starts: api.listDeployments / api.listVersions is awaited.
CmdStart ==
  /\ pc = "idle" /\ entry \in Commands
  /\ pc' = "list" /\ log' = Append(log, EvList)
  /\ UNCHANGED <<entry, opts, listing, toDelete, BatchVars, faults, exitCode>>

ListAnswerSwallow(resp) ==
  /\ pc = "list"
  /\ IsFault(resp) => faults < FaultBudget
  /\ faults' = IF IsFault(resp) THEN faults + 1 ELSE faults
  /\ UNCHANGED <<entry, opts, listing>>
  /\ LET out == request(resp)
         lg == Append(log, EvAnswer(0, resp))
     IN IF ~out.ok
        THEN Exit(0, lg) /\ UNCHANGED toDelete
        ELSE IF NothingEligible(listing) THEN Exit(0, lg) /\ UNCHANGED toDelete
        ELSE IF opts.all THEN Chosen(Deletable(listing), lg)
        ELSE /\ pc' = "select" /\ log' = Append(lg, EvPrompt("select"))
             /\ UNCHANGED <<toDelete, BatchVars, exitCode>>
\* The remote answers the listing request.
ListAnswer(resp) ==
  /\ pc = "list"
  /\ IsFault(resp) => faults < FaultBudget
  /\ faults' = IF IsFault(resp) THEN faults + 1 ELSE faults
  /\ UNCHANGED <<entry, opts, listing>>
  /\ LET out == request(resp)
         lg == Append(log, EvAnswer(0, resp))
     IN IF ~out.ok
        THEN Exit(1, Append(lg, EvError(out.message))) /\ UNCHANGED toDelete
        ELSE IF NothingEligible(listing) THEN Exit(0, lg) /\ UNCHANGED toDelete
        ELSE IF opts.all THEN Chosen(Deletable(listing), lg)
        ELSE /\ pc' = "select" /\ log' = Append(lg, EvPrompt("select"))
             /\ UNCHANGED <<toDelete, BatchVars, exitCode>>

\* The operator submits the checkbox prompt.
Select(sel) ==
  /\ pc = "select"
  /\ Chosen(sel, log)
  /\ UNCHANGED <<entry, opts, listing, faults>>

ConfirmIgnored(yes) ==
  /\ pc = "confirm"
  /\ Begin(RoutineOf(entry), toDelete, Append(log, EvConfirmed(yes)))
  /\ UNCHANGED <<entry, opts, listing, toDelete, faults>>
\* The operator answers the confirmation prompt.
Confirm(yes) ==
  /\ pc = "confirm"
  /\ LET lg == Append(log, EvConfirmed(yes))
     IN IF yes THEN Begin(RoutineOf(entry), toDelete, lg) ELSE Exit(0, lg)
  /\ UNCHANGED <<entry, opts, listing, toDelete, faults>>

CmdInit ==
  /\ entry \in Commands
  /\ opts \in [all : BOOLEAN, dryRun : BOOLEAN, force : BOOLEAN]
  /\ listing \in {Iota(n) : n \in 0..MaxList}
  /\ toDelete = <<>> /\ calls = 0
  /\ routine = RoutineOf(entry) /\ ids = <<>> /\ i = 0 /\ attempt = 0
  /\ result = Succeeded /\ success = <<>> /\ failed = <<>>
  /\ pc = "idle" /\ log = <<>> /\ faults = 0 /\ exitCode = Running

CmdNext ==
  \/ CmdStart
  \/ \E resp \in Responses : ListAnswer(resp)
  \/ \E sel \in Selectable(listing) : Select(sel)
  \/ \E yes \in BOOLEAN : Confirm(yes)
  \/ \E resp \in Responses : Respond(resp)
  \/ BackoffEnds
  \/ PauseEnds

CmdSpec == CmdInit /\ [][CmdNext]_vars

\* ------------------------------------------------- reading the log ------
Range(f) == {f[k] : k \in DOMAIN f}
Events(ev) == {k \in DOMAIN log : log[k].ev = ev}
DeletesFor(x) == {k \in Events("delete") : log[k].id = x}
AnswersFor(x) == {k \in Events("answer") : log[k].id = x}
Pauses == {k \in Events("delay") : log[k].ms = requestDelay}
Backoffs == {k \in Events("delay") : log[k].ms # requestDelay}
Occurrences(list, x) == Cardinality({k \in DOMAIN list : list[k] = x})
FailedIds == {failed[k].id : k \in DOMAIN failed}

\* What the single delete call made of an answer.
Outcome(resp) ==
  IF routine = "wranglerDeleteVersions" THEN deleteVersion(resp) ELSE request(resp)
IsRateLimited(resp) == resp.kind = "http" /\ resp.status = 429
AllAnswersOk == \A k \in Events("answer") : Outcome(log[k].resp).ok
BatchReturned == pc \in {"done", "exited"} /\ Events("delete") # {}

\* ---------------------------------------------------------------- C1 -----
\* C1: the identifier at position 0 of a non-empty resource list is never
\* the target of a delete request and never in the selected, dispatched or
\* succeeded lists, also when a caller passes it to the batch routine.
C1_ActiveNeverDeleted ==
  listing # <<>> =>
    /\ DeletesFor(listing[1]) = {}
    /\ listing[1] \notin Range(toDelete) \cup Range(ids) \cup Range(success)

\* ---------------------------------------------------------------- C2 -----
\* C2: when every delete call of a finished batch of N identifiers succeeded
\* at once, there were exactly N delete requests, N-1 pauses, no backoff
\* wait, and the report is succeeded = input, failed = empty.
C2_AllSucceed ==
  (pc = "done" /\ ids # <<>> /\ AllAnswersOk) =>
    /\ Cardinality(Events("delete")) = Len(ids)
    /\ Cardinality(Pauses) = Len(ids) - 1
    /\ Backoffs = {}
    /\ success = ids /\ failed = <<>>

\* ---------------------------------------------------------------- C3 -----
\* The remote answered RateLimited with Retry-After 5 to the first request
\* for x, at log position k, and answered success to every later one.
RateLimitedOnceAt(x, k) ==
  /\ k \in AnswersFor(x) /\ log[k].resp = Resp429("5")
  /\ \A j \in AnswersFor(x) : j # k => (j > k /\ Outcome(log[j].resp).ok)

\* C3: an identifier rate-limited once with retryAfterSeconds = 5 and then
\* answered with success ends in succeeded, not in failed, and a wait of at
\* least 5000 ms lies between the rate-limited answer and the next delete
\* request for it.
C3_RetryAfterRateLimit ==
  \A x \in Range(ids) : \A k \in DOMAIN log :
    (pc = "done" /\ Occurrences(ids, x) = 1 /\ RateLimitedOnceAt(x, k)) =>
      /\ x \in Range(success) /\ x \notin FailedIds
      /\ \E d \in Events("delay"), n \in DeletesFor(x) :
           /\ k < d /\ d < n /\ log[d].ms >= 5000
           /\ \A m \in DeletesFor(x) : m > k => n <= m

\* ---------------------------------------------------------------- C4 -----
\* The first two answers for x were both RateLimited.
RateLimitedTwice(x) ==
  \E k1, k2 \in AnswersFor(x) :
    /\ k1 < k2
    /\ \A j \in AnswersFor(x) : j = k1 \/ j >= k2
    /\ IsRateLimited(log[k1].resp) /\ IsRateLimited(log[k2].resp)

\* C4: an identifier whose first attempt and retry are both answered
\* RateLimited gets no third delete request and ends in failed with the
\* retry's (rate-limit) message.
C4_NoThirdAttempt ==
  \A x \in Range(ids) :
    (Occurrences(ids, x) = 1 /\ RateLimitedTwice(x)) =>
      /\ Cardinality(DeletesFor(x)) <= 2
      /\ pc = "done" =>
           /\ x \notin Range(success)
           /\ \E k \in DOMAIN failed : failed[k] = [id |-> x, error |-> MsgRateLimit]

\* ---------------------------------------------------------------- C5 -----
OccurrencesFailed(x) == Cardinality({k \in DOMAIN failed : failed[k].id = x})

\* C5, as claimed: when the batch routine returns, every supplied identifier
\* appears in exactly one of succeeded and failed, exactly once; the sizes
\* add up to the number supplied and the two are disjoint.
C5_ExactlyOnce ==
  pc = "done" =>
    /\ \A x \in Range(ids) : Occurrences(success, x) + OccurrencesFailed(x) = 1
    /\ Len(success) + Len(failed) = Len(ids)
    /\ Range(success) \cap FailedIds = {}

\* C5, amended: when the batch routine returns, every identifier appears in
\* succeeded and failed together exactly as often as it was supplied (once,
\* in exactly one of the two, when it was supplied once), nothing else
\* appears, and the sizes add up to the length of the input.
C5_OncePerSuppliedEntry ==
  pc = "done" =>
    /\ \A x \in Range(ids) :
         Occurrences(success, x) + OccurrencesFailed(x) = Occurrences(ids, x)
    /\ Range(success) \cup FailedIds \subseteq Range(ids)
    /\ Len(success) + Len(failed) = Len(ids)
    /\ \A x \in Range(ids) :
         Occurrences(ids, x) = 1 => ~(x \in Range(success) /\ x \in FailedIds)

C5_Witness ==
  /\ pc = "done" /\ Len(ids) = 2 /\ ids[1] # ids[2]
  /\ Len(success) = 1 /\ Len(failed) = 1

\* ---------------------------------------------------------------- C6 -----
\* C6: with the dry-run flag set the delete command issues no delete
\* request and never invokes the batch routine; the listing request is the
\* only request.
C6_DryRunDeletesNothing ==
  opts.dryRun =>
    /\ Events("delete") = {} /\ calls = 0
    /\ Cardinality(Events("list")) <= 1
    /\ pc \notin {"req", "backoff", "pause", "confirm"}

C6_Witness ==
  /\ opts.dryRun /\ opts.force /\ pc = "exited" /\ Len(toDelete) >= 2

\* ---------------------------------------------------------------- C7 -----
\* A message that holds no credential: the token is absent and no bearer
\* phrase is left for the sanitizer to redact.
Sanitized(m) == ~Contains(m, Token) /\ sanitize(m) = m

\* C7: every message recorded in failed or logged as an error is redacted:
\* a bearer credential in it was replaced by the marker and the API token
\* appears nowhere, on every error path.
C7_NoCredentialInMessages ==
  /\ \A k \in DOMAIN failed : Sanitized(failed[k].error)
  /\ \A k \in Events("error") : Sanitized(log[k].message)

\* ---------------------------------------------------------------- C8 -----
\* C8: in 'delete all' mode the list dispatched is the listing without its
\* first entry, in order; when all delete calls succeed the report is
\* succeeded = that list, failed = empty (5 listed: id1..id4).
C8_DeleteAllButActive ==
  LET rest == [k \in 1..(Len(listing) - 1) |-> listing[k + 1]]
  IN (opts.all /\ calls > 0) =>
       /\ toDelete = rest /\ ids = rest
       /\ (pc = "exited" /\ AllAnswersOk) => (success = rest /\ failed = <<>>)

C8_Witness ==
  /\ opts.all /\ pc = "exited" /\ Len(listing) = 5 /\ AllAnswersOk
  /\ success = <<listing[2], listing[3], listing[4], listing[5]>>
  /\ failed = <<>>

\* ---------------------------------------------------------------- C9 -----
\* C9: when the listing returns 0 or 1 resources the command issues no
\* delete request, shows no prompt and never invokes the batch routine.
C9_NothingToDelete ==
  Len(listing) <= 1 =>
    /\ Events("delete") = {} /\ Events("prompt") = {} /\ calls = 0
    /\ pc \in {"idle", "list", "exited"}

C9_Witness ==
  /\ Len(listing) = 1 /\ pc = "exited" /\ exitCode = 0
  /\ opts.all /\ opts.force /\ ~opts.dryRun

\* --------------------------------------------------------------- C10 -----
\* The identifiers of the delete requests, in the order they were issued.
RECURSIVE DeleteIds(_)
DeleteIds(lg) ==
  IF lg = <<>> THEN <<>>
  ELSE (IF Head(lg).ev = "delete" THEN <<Head(lg).id>> ELSE <<>>)
         \o DeleteIds(Tail(lg))

\* C10: a batch over identifiers that are all gone (every delete request
\* answered 404) returns with succeeded empty and every identifier in
\* failed with the not-found message, each attempted exactly once, with no
\* backoff wait.
C10_AlreadyDeleted ==
  (pc = "done" /\ ids # <<>>
     /\ \A k \in Events("answer") : log[k].resp = Resp404) =>
    /\ success = <<>>
    /\ failed = [k \in 1..Len(ids) |-> [id |-> ids[k], error |-> MsgNotFound]]
    /\ DeleteIds(log) = ids
    /\ Backoffs = {}

C10_Witness ==
  /\ pc = "done" /\ Len(ids) = 2 /\ Len(failed) = 2
  /\ \A k \in Events("answer") : log[k].resp = Resp404

\* --------------------------------------------------------------- C11 -----
\* The HTTP responses the client's calls of this run received.
HttpAnswers ==
  IF routine = "wranglerDeleteVersions" THEN {}
  ELSE {log[k].resp : k \in {j \in Events("answer") : log[j].resp.kind = "http"}}
\* The integer a Retry-After header of whole seconds stands for.
HeaderSeconds == ("0" :> 0) @@ ("5" :> 5) @@ ("120" :> 120)
IsParseFailure(out) ==
  /\ ~out.ok /\ Len(out.message) >= Len(MsgParsePrefix)
  /\ SubSeq(out.message, 1, Len(MsgParsePrefix)) = MsgParsePrefix

\* What the status alone decides: 429, 403, 404, and the parse failure of
\* any other status.
ByStatus(r) ==
  LET out == request(r)
  IN /\ r.status = 429 =>
          /\ ~out.ok /\ out.cls = "RateLimitError"
          /\ out.retryAfter = IF r.retryAfter = NoHeader THEN Undefined
                              ELSE HeaderSeconds[r.retryAfter]
     /\ r.status = 403 => (~out.ok /\ out.message = MsgPermission)
     /\ r.status = 404 => (~out.ok /\ out.message = MsgNotFound)
     /\ (r.status \notin {429, 403, 404} /\ ~r.parses) => IsParseFailure(out)
Enveloped(r) == r.status \notin {429, 403, 404} /\ r.parses /\ ~r.success

\* C11, as claimed: a response is classified by its status before its body
\* is looked at (429 with the Retry-After seconds or no value, 403, 404,
\* else a parse failure), and an envelope with success = false yields an
\* error whose message is errors[0].message.
C11_MessageIsFirstError ==
  \A r \in HttpAnswers :
    /\ ByStatus(r)
    /\ (Enveloped(r) /\ r.errors # <<>>) =>
         (~request(r).ok /\ request(r).message = r.errors[1])

\* C11, amended: classified by status as claimed; an envelope with
\* success = false yields an error whose message is errors[0].message with
\* every bearer credential in it redacted, and 'Unknown API error' when the
\* envelope lists no error.
C11_ClassifiedByStatus ==
  \A r \in HttpAnswers :
    /\ ByStatus(r)
    /\ Enveloped(r) =>
         /\ ~request(r).ok
         /\ request(r).message =
              IF r.errors # <<>> THEN sanitize(r.errors[1]) ELSE MsgUnknownApi

C11_Witness ==
  /\ pc = "done" /\ Resp429("5") \in HttpAnswers
  /\ RespApiError(<<BearerMsg>>) \in HttpAnswers
  /\ \E k \in DOMAIN failed : failed[k].error = sanitize(BearerMsg)

\* --------------------------------------------------------------- C12 -----
IsNon2xx(resp) == resp.kind = "http" /\ resp.status \notin 200..299

\* C12: a delete call whose response status is not 2xx fails whatever the
\* body says: an identifier all of whose delete requests were answered with
\* a non-2xx status is never recorded in succeeded.
C12_Non2xxNeverSucceeds ==
  \A x \in Range(ids) :
    (/\ routine # "wranglerDeleteVersions" /\ AnswersFor(x) # {}
     /\ \A k \in AnswersFor(x) : IsNon2xx(log[k].resp)) =>
      x \notin Range(success)

\* --------------------------------------------------------------- C13 -----
\* The identifiers the progress callback was invoked with, in order.
RECURSIVE ProgressIds(_)
ProgressIds(lg) ==
  IF lg = <<>> THEN <<>>
  ELSE (IF Head(lg).ev = "progress" THEN <<Head(lg).id>> ELSE <<>>)
         \o ProgressIds(Tail(lg))
ProgressFor(x) == {k \in Events("progress") : log[k].id = x}

\* Each invocation directly follows the successful answer for its
\* identifier, hence precedes every later delete request, and carries the
\* identifier at the position it reports and the input length as total.
ProgressWellFormed ==
  \A k \in Events("progress") :
    /\ k > 1 /\ log[k - 1].ev = "answer" /\ log[k - 1].id = log[k].id
    /\ Outcome(log[k - 1].resp).ok
    /\ log[k].total = Len(ids)
    /\ log[k].completed \in 1..Len(ids) /\ ids[log[k].completed] = log[k].id

\* C13, as claimed: the progress callback is invoked exactly once for each
\* identifier recorded in succeeded, after the success is recorded and
\* before the next identifier is attempted, with that identifier and total
\* = input length, and never for an identifier recorded in failed.
C13_OncePerSucceededId ==
  /\ ProgressWellFormed
  /\ \A x \in Range(success) : Cardinality(ProgressFor(x)) = 1
  /\ \A x \in FailedIds : ProgressFor(x) = {}

\* C13, amended: the callback is invoked exactly once for each entry of
\* succeeded, in the same order, directly after the successful answer and
\* so before the next delete request, with that identifier and total =
\* input length; it is never invoked for an entry recorded in failed (an
\* identifier supplied twice can have one entry in each).
C13_OncePerSucceededEntry ==
  /\ ProgressWellFormed
  /\ ProgressIds(log) = success
  /\ Cardinality(Events("progress")) + Len(failed) <= Len(ids)

C13_Witness ==
  /\ pc = "done" /\ ids = <<1, 1>> /\ success = <<1>> /\ FailedIds = {1}
  /\ Cardinality(Events("progress")) = 1

\* --------------------------------------------------------------- C14 -----
\* How many entries of the input the loop has dealt with.
Handled == IF pc = "pause" THEN i + 1 ELSE i
LastAnswerFor(x) == CHOOSE k \in AnswersFor(x) : \A j \in AnswersFor(x) : j <= k

\* C14: whatever the remote answers (success, rate limit, permission
\* denied, not found, transport error), the batch call is pending or has
\* returned its report: no exception leaves it and the process is not
\* exited; every entry dealt with is in the report, and an identifier whose
\* last delete request failed is an entry of failed.
C14_NeverThrows ==
  /\ pc \in {"idle", "req", "backoff", "pause", "done"}
  /\ exitCode = Running
  /\ Len(success) + Len(failed) = Handled
  /\ pc = "done" => Handled = Len(ids)
  /\ \A p \in 1..Handled :
       (Occurrences(ids, ids[p]) = 1
          /\ ~Outcome(log[LastAnswerFor(ids[p])].resp).ok) =>
         ids[p] \in FailedIds

C14_Witness ==
  /\ pc = "done" /\ routine = "deleteDeployments" /\ ids = <<1>>
  /\ \E k1, k2 \in AnswersFor(1) :
       /\ k1 < k2 /\ IsRateLimited(log[k1].resp) /\ log[k2].resp = Thrown(BearerMsg)
  /\ FailedIds = {1}

\* --------------------------------------------------------------- C15 -----
FailedSeq == [k \in DOMAIN failed |-> failed[k].id]

\* C15: succeeded and the identifiers of failed are subsequences of the
\* input that keep its order: they are the entries of the input at two
\* complementary sets of the positions dealt with, each in input order.
C15_ReportInInputOrder ==
  \E S \in SUBSET (1..Handled) :
    /\ success = Pick(ids, S, 1)
    /\ FailedSeq = Pick(ids, (1..Handled) \ S, 1)

C15_Witness ==
  /\ pc = "done" /\ routine = "deleteDeployments" /\ ids = <<2, 1>>
  /\ success = <<>> /\ FailedSeq = <<2, 1>>
  /\ failed[1].error # failed[2].error

\* --------------------------------------------------------------- C16 -----
AnsweredWithSuccess(x) == \E k \in AnswersFor(x) : Outcome(log[k].resp).ok

\* C16: in the returned report an identifier (supplied once) is in
\* succeeded if and only if some delete request issued for it was answered
\* with success; one whose re-attempt after a rate limit succeeded is in
\* succeeded and not in failed.
C16_ReportMatchesRemote ==
  pc = "done" =>
    \A x \in Range(ids) :
      Occurrences(ids, x) = 1 =>
        /\ x \in Range(success) <=> AnsweredWithSuccess(x)
        /\ AnsweredWithSuccess(x) => x \notin FailedIds

\* --------------------------------------------------------------- C17 -----
Distinct(list) == \A x \in Range(list) : Occurrences(list, x) = 1

\* C17: during one batch no identifier is the target of more than two
\* delete requests, whatever the remote answers; a finished batch of N
\* distinct identifiers issued between N and 2N delete requests.
C17_AtMostTwoRequests ==
  Distinct(ids) =>
    /\ \A x \in Range(ids) : Cardinality(DeletesFor(x)) <= 2
    /\ pc = "done" =>
         /\ Len(ids) <= Cardinality(Events("delete"))
         /\ Cardinality(Events("delete")) <= 2 * Len(ids)

\* --------------------------------------------------------------- C18 -----
\* A backoff wait directly follows the RateLimited answer it is computed
\* from; Seconds is the value that answer carried, 0 standing for none.
AfterRateLimit(d) ==
  d > 1 /\ log[d - 1].ev = "answer" /\ IsRateLimited(log[d - 1].resp)
Seconds(resp) ==
  IF resp.retryAfter = NoHeader THEN 0 ELSE HeaderSeconds[resp.retryAfter]
Max(a, b) == IF a >= b THEN a ELSE b

\* C18, as claimed: the backoff wait after a RateLimited response is
\* max(retryAfterSeconds, 60) * 1000 ms, 60000 ms when the response carried
\* no value, and so never shorter than 60000 ms.
C18_WaitAtLeastSixtySeconds ==
  \A d \in Backoffs :
    /\ AfterRateLimit(d)
    /\ log[d].ms = Max(Seconds(log[d - 1].resp), 60) * 1000
    /\ log[d].ms >= 60000

\* C18, amended: the backoff wait is retryAfterSeconds * 1000 ms when the
\* RateLimited response carried a positive Retry-After value, also one
\* below 60, and 60000 ms when it carried none or zero.
C18_WaitIsRetryAfterOrSixty ==
  \A d \in Backoffs :
    /\ AfterRateLimit(d)
    /\ log[d].ms = IF Seconds(log[d - 1].resp) > 0
                   THEN Seconds(log[d - 1].resp) * 1000 ELSE 60000

C18_Witness ==
  /\ pc = "done"
  /\ \E d1, d2 \in Backoffs :
       /\ log[d1].ms = 5000 /\ log[d1 - 1].resp = Resp429("5")
       /\ log[d2].ms = 60000 /\ log[d2 - 1].resp = Resp429(NoHeader)

\* --------------------------------------------------------------- C19 -----
FirstAnswerFor(x) == CHOOSE k \in AnswersFor(x) : \A j \in AnswersFor(x) : k <= j

\* C19: a RateLimited answer to an identifier's first attempt is followed
\* by the backoff wait, and only then by a delete request, the one retry
\* for the same identifier: no delete request lies between the answer and
\* the end of the wait.
C19_BackoffBeforeRetry ==
  \A x \in Range(ids) :
    (Occurrences(ids, x) = 1 /\ AnswersFor(x) # {}
       /\ IsRateLimited(log[FirstAnswerFor(x)].resp)) =>
      LET k == FirstAnswerFor(x)
      IN /\ k + 1 <= Len(log) => k + 1 \in Backoffs
         /\ k + 2 <= Len(log) => log[k + 2] = EvDelete(x)
         /\ Cardinality({m \in DeletesFor(x) : m > k}) <= 1

\* --------------------------------------------------------------- C20 -----
\* The message a routine records for a failed delete call: the error's
\* message, which the API client redacts.
MessageOf(resp) ==
  IF routine = "wranglerDeleteVersions" THEN Outcome(resp).message
  ELSE sanitize(Outcome(resp).message)
FailsOtherThanRateLimit(resp) ==
  ~Outcome(resp).ok /\ Outcome(resp).cls # "RateLimitError"

\* C20: an identifier whose first delete attempt fails with an error other
\* than RateLimited (permission denied, not found, transport) is recorded
\* in failed with that attempt's message, after exactly one delete request,
\* with no backoff wait and no retry.
C20_FailsAtOnce ==
  \A x \in Range(ids) :
    (Occurrences(ids, x) = 1 /\ AnswersFor(x) # {}
       /\ FailsOtherThanRateLimit(log[FirstAnswerFor(x)].resp)) =>
      LET k == FirstAnswerFor(x)
      IN /\ Cardinality(DeletesFor(x)) = 1 /\ AnswersFor(x) = {k}
         /\ k + 1 <= Len(log) => k + 1 \notin Backoffs
         /\ x \notin Range(success)
         /\ \E f \in DOMAIN failed :
              failed[f] = [id |-> x, error |-> MessageOf(log[k].resp)]

C20_Witness ==
  /\ pc = "done" /\ routine = "deleteDeployments" /\ ids = <<1, 2>>
  /\ failed = <<[id |-> 1, error |-> MsgPermission],
                [id |-> 2, error |-> <<"Authorization:", " ">> \o Redacted]>>
  /\ Cardinality(Events("delete")) = 2 /\ Backoffs = {}

\* --------------------------------------------------------------- C21 -----
\* C21: a finished batch of N >= 1 identifiers made exactly N-1 pauses of
\* 200 ms, each followed by the delete request for the next identifier and
\* none after the last, in every routine.
C21_PausesBetweenIdentifiers ==
  (pc = "done" /\ ids # <<>>) =>
    /\ Cardinality(Pauses) = Len(ids) - 1
    /\ log[Len(log)].ev # "delay"
    /\ \A d \in Pauses : d < Len(log) /\ log[d + 1].ev = "delete"

\* --------------------------------------------------------------- C22 -----
\* A delete request opens a new input entry when it is the first of the
\* batch or follows the inter-request pause; the wrangler routine issues
\* one request per entry.
IsFirstAttempt(k) ==
  /\ log[k].ev = "delete"
  /\ \/ k = 1 \/ routine = "wranglerDeleteVersions"
     \/ (log[k - 1].ev = "delay" /\ log[k - 1].ms = requestDelay)
\* The identifiers of the first attempts among log[1..k], in order.
RECURSIVE FirstAttemptIds(_)
FirstAttemptIds(k) ==
  IF k = 0 THEN <<>>
  ELSE FirstAttemptIds(k - 1) \o (IF IsFirstAttempt(k) THEN <<log[k].id>> ELSE <<>>)

\* C22: a failure never stops the batch: identifiers are first attempted
\* in input order, and when the batch returns every entry of the input,
\* also one after a failed entry, has received a delete request.
C22_NoFailFast ==
  LET fa == FirstAttemptIds(Len(log))
  IN /\ Len(fa) <= Len(ids) /\ fa = SubSeq(ids, 1, Len(fa))
     /\ pc = "done" => fa = ids

C22_Witness ==
  /\ pc = "done" /\ ids = <<2, 1>> /\ FailedIds = {2, 1}
  /\ DeletesFor(1) # {} /\ DeletesFor(2) # {}

\* --------------------------------------------------------------- C23 -----
\* One answer of each kind the routines tell apart: success, rate limit,
\* any other failure.
LiveAnswers(r) ==
  IF r = "wranglerDeleteVersions" THEN {ExecOk, Exec(TRUE, <<"ENOENT">>)}
  ELSE {RespOk, Resp429("5"), Resp404}
LiveNext ==
  \/ \E r \in Routines, in \in SeqsUpTo(Ids, MaxLen) : Call(r, in)
  \/ \E resp \in LiveAnswers(routine) : Respond(resp)
  \/ BackoffEnds
  \/ PauseEnds
\* Every network call is answered and every timer fires.
Completes ==
  /\ WF_vars(\E resp \in LiveAnswers(routine) : Respond(resp))
  /\ WF_vars(BackoffEnds)
  /\ WF_vars(PauseEnds)
LiveSpec == Init /\ [][LiveNext]_vars /\ Completes

\* C23: provided every network call and every timer completes, a started
\* batch eventually returns with every input entry recorded in succeeded or
\* failed; requests only ever target the entry after the recorded ones and
\* the loop never steps back, so a recorded entry is not attempted again.
C23_BatchReturns ==
  /\ (pc = "req") ~> (pc = "done" /\ Len(success) + Len(failed) = Len(ids))
  /\ [](pc \in {"req", "backoff"} => Len(success) + Len(failed) = i)
  /\ [][i' >= i]_vars

C23_Witness ==
  /\ pc = "done" /\ Len(ids) = 2 /\ Len(success) = 1 /\ Len(failed) = 1
  /\ Backoffs # {} /\ Pauses # {}

\* --------------------------------------------------------------- C24 -----
Requests == Events("delete") \cup Events("list")
\* Requests issued and not yet answered.
Outstanding == Cardinality(Requests) - Cardinality(Events("answer"))

\* C24: at most one request is outstanding, and exactly while the run
\* awaits an answer; every request is directly followed by its answer;
\* a step issues at most one request, only when none is outstanding after
\* the step's answer, and never in the step that starts a pause or a
\* backoff wait: during a wait nothing is outstanding.
C24_OneRequestAtATime ==
  /\ [](/\ Outstanding \in {0, 1}
        /\ Outstanding = 1 <=> pc \in {"req", "list"}
        /\ \A k \in Requests : k < Len(log) => log[k + 1].ev = "answer"
        /\ pc \in {"pause", "backoff"} =>
             (Outstanding = 0 /\ log[Len(log)].ev = "delay"))
  /\ [][/\ Cardinality(Requests') <= Cardinality(Requests) + 1
        /\ Cardinality(Events("delay")') > Cardinality(Events("delay")) =>
             (Requests' = Requests /\ pc' \in {"pause", "backoff"})]_vars

C24_Witness ==
  /\ pc = "backoff" /\ i = 1 /\ Pauses # {} /\ Outstanding = 0
  /\ Cardinality(Events("answer")) = 2

\* ------------------------------------------- single-resource calls ------
ClientCalls == {"listDeployments", "listVersions", "deleteDeployment", "deleteVersion"}
EvCall(op) == [ev |-> "call", op |-> op]
EvFetch(op) == [ev |-> "fetch", op |-> op]
EvSettle(op, ok) == [ev |-> "settle", op |-> op, ok |-> ok]

\* A caller invokes one of the client's calls: it goes to request, which
\* awaits fetch.
ClientCall(op) ==
  /\ pc \in {"idle", "settled"} /\ calls < MaxClientCalls
  /\ pc' = "fetch" /\ routine' = op /\ calls' = calls + 1
  /\ log' = log \o <<EvCall(op), EvFetch(op)>>
  /\ UNCHANGED <<entry, opts, listing, toDelete, ids, i, attempt, result, success, failed,
                 faults, exitCode>>

ClientAnswerRetry429(resp) ==
  /\ pc = "fetch"
  /\ IF resp.kind = "http" /\ resp.status = 429
     THEN /\ pc' = "fetch"
          /\ log' = log \o <<EvAnswer(0, resp), EvFetch(routine)>>
     ELSE /\ pc' = "settled"
          /\ log' = log \o <<EvAnswer(0, resp), EvSettle(routine, request(resp).ok)>>
  /\ faults' = IF IsFault(resp) THEN faults + 1 ELSE faults
  /\ UNCHANGED <<entry, opts, listing, toDelete, calls, routine, ids, i, attempt, result,
                 success, failed, exitCode>>
\* fetch settles: request returns or throws, and with it the call.
ClientAnswer(resp) ==
  /\ pc = "fetch"
  /\ pc' = "settled"
  /\ log' = log \o <<EvAnswer(0, resp), EvSettle(routine, request(resp).ok)>>
  /\ faults' = IF IsFault(resp) THEN faults + 1 ELSE faults
  /\ UNCHANGED <<entry, opts, listing, toDelete, calls, routine, ids, i, attempt, result,
                 success, failed, exitCode>>

ClientNext ==
  \/ \E op \in ClientCalls : ClientCall(op)
  \/ \E resp \in Responses : ClientAnswer(resp)

ClientSpec == Init /\ [][ClientNext]_vars

\* --------------------------------------------------------------- C25 -----
\* C25: each call of listDeployments, listVersions, deleteDeployment or
\* deleteVersion issues exactly one network request: the answer to it,
\* a 429 included, settles the call, which returns exactly when request
\* made a success of the answer.
C25_OneRequestPerCall ==
  /\ Cardinality(Events("fetch")) = Cardinality(Events("call"))
  /\ Cardinality(Events("call")) = calls
  /\ \A k \in Events("answer") :
       /\ k < Len(log) /\ log[k + 1].ev = "settle"
       /\ log[k + 1].ok = request(log[k].resp).ok
       /\ IsRateLimited(log[k].resp) => ~log[k + 1].ok
  /\ pc = "settled" => Cardinality(Events("answer")) = calls

C25_Witness ==
  /\ pc = "settled" /\ calls = 2 /\ routine = "deleteVersion"
  /\ \E k \in Events("answer") : log[k].resp = Resp429("5") /\ log[k - 1].op = "listDeployments"
  /\ log[Len(log)] = EvSettle("deleteVersion", TRUE)

\* --------------------------------------------------------------- C26 -----
\* The responses the remote gave, in order.
RECURSIVE AnswerSeq(_)
AnswerSeq(lg) ==
  IF lg = <<>> THEN <<>>
  ELSE (IF Head(lg).ev = "answer" THEN <<Head(lg).resp>> ELSE <<>>)
         \o AnswerSeq(Tail(lg))

\* CloudflareAPI.deleteVersions as a function of its input and of the
\* remote's responses: the loop from entry p on, st holding the events so
\* far, the report so far and the responses not yet consumed.  The end of
\* the loop body: push, progress, pause.
versionsRecord(in, p, st, lg, rest, r) ==
  LET lg1 == IF r.success THEN Append(lg, EvProgress(p, Len(in), in[p])) ELSE lg
  IN [log |-> IF p < Len(in) THEN Append(lg1, EvDelay(requestDelay)) ELSE lg1,
      success |-> pushSuccess(st.success, r.success, in[p]),
      failed |-> pushFailed(st.failed, r.success, in[p], r.error),
      resps |-> rest, open |-> FALSE]
RECURSIVE versionsReplay(_, _, _)
versionsReplay(in, p, st) ==
  IF p > Len(in) \/ st.open THEN st
  ELSE
    LET id == in[p]
        lg0 == Append(st.log, EvDelete(id))
    IN IF st.resps = <<>> THEN [st EXCEPT !.log = lg0, !.open = TRUE]
       ELSE
         LET r1 == tryDeleteVersion(request(Head(st.resps)))
             lg1 == Append(lg0, EvAnswer(id, Head(st.resps)))
             rest1 == Tail(st.resps)
         IN IF ~r1.success /\ r1.isRateLimit THEN
              LET lg2 == Append(Append(lg1, EvDelay(waitTime(r1.retryAfter))),
                                EvDelete(id))
              IN IF rest1 = <<>>
                 THEN [st EXCEPT !.log = lg2, !.resps = rest1, !.open = TRUE]
                 ELSE versionsReplay(in, p + 1,
                        versionsRecord(in, p, st,
                          Append(lg2, EvAnswer(id, Head(rest1))), Tail(rest1),
                          tryDeleteVersion(request(Head(rest1)))))
            ELSE versionsReplay(in, p + 1, versionsRecord(in, p, st, lg1, rest1, r1))

\* C26: a finished batch of the deployment routine is what the version
\* routine makes of the same input and the same responses: the same
\* report, and the same delete requests, backoff waits, pauses and progress
\* reports in the same order.
C26_SameAsVersionRoutine ==
  (pc = "done" /\ routine \in {"deleteDeployments", "deleteVersions"}) =>
    LET ref == versionsReplay(ids, 1,
                 [log |-> <<>>, success |-> <<>>, failed |-> <<>>,
                  resps |-> AnswerSeq(log), open |-> FALSE])
    IN ref.log = log /\ ref.success = success /\ ref.failed = failed

\* --------------------------------------------------------------- C27 -----
\* The answer to the command's listing request made the listing call fail.
ListingFailed ==
  Len(log) >= 2 /\ log[1].ev = "list" /\ ~request(log[2].resp).ok

\* C27: when the listing request fails (not found, permission denied, rate
\* limit, transport) the command reports that failure and exits non-zero:
\* the listing is not retried, nothing is prompted, the batch routine is
\* not invoked and no delete request is issued.
C27_ListingFailureExits ==
  ListingFailed =>
    /\ pc = "exited" /\ exitCode = 1
    /\ log = <<EvList, log[2], EvError(request(log[2].resp).message)>>
    /\ calls = 0 /\ toDelete = <<>>

C27_Witness ==
  /\ ListingFailed /\ log[2].resp = Resp429("5") /\ exitCode = 1
  /\ Len(listing) = 3 /\ opts.all /\ opts.force

\* --------------------------------------------------------------- C28 -----
\* C28: after a batch has run the command exits with a non-zero status if
\* and only if the report's failed part is non-empty; when every selected
\* identifier succeeded it ends normally, with status 0.
C28_ExitCodeTellsFailures ==
  (pc = "exited" /\ calls > 0) =>
    /\ exitCode \in {0, 1}
    /\ exitCode # 0 <=> failed # <<>>
    /\ success = toDelete => exitCode = 0

C28_Witness ==
  /\ pc = "exited" /\ calls > 0 /\ exitCode = 1
  /\ Len(toDelete) = 3 /\ Len(success) = 2 /\ Len(failed) = 1

AgainInputs == {<<1>>, <<2, 1>>}
\* A caller invokes a batch routine, for the first time or after an
\* earlier invocation has returned.
CallOn(r, in) ==
  /\ pc \in {"idle", "done"} /\ entry = "harness" /\ calls < MaxBatchCalls
  /\ Begin(r, in, log)
  /\ UNCHANGED <<entry, opts, listing, toDelete, faults>>
AgainNext ==
  \/ \E r \in Routines, in \in AgainInputs : CallOn(r, in)
  \/ \E resp \in LiveAnswers(routine) : Respond(resp)
  \/ BackoffEnds
  \/ PauseEnds
AgainSpec == Init /\ [][AgainNext]_vars

\* --------------------------------------------------------------- C30 -----
\* C30: each invocation builds its report from empty: at every moment,
\* also in a second invocation on the same client, the report holds
\* exactly one record per entry of the current input dealt with and only
\* identifiers of that input; the input is not changed while the batch
\* runs.
C30_FreshReportPerCall ==
  /\ [](/\ Len(success) + Len(failed) = Handled
        /\ Range(success) \cup FailedIds \subseteq Range(ids))
  /\ [][(pc \in {"req", "backoff", "pause"}) => (ids' = ids)]_vars

C30_Witness ==
  /\ calls = 2 /\ pc = "done" /\ ids = <<1>> /\ success = <<1>> /\ failed = <<>>
  /\ ProgressIds(log) = <<2, 1, 1>>

\* --------------------------------------------------------------- C31 -----
ConfirmPrompts == {k \in Events("prompt") : log[k].what = "confirm"}
Declined == \E k \in Events("confirmed") : ~log[k].yes

\* C31: the command issues a delete request only for a non-empty
\* selection that was confirmed or forced: an empty selection and a
\* declined confirmation end the command with no delete request; with
\* --force no confirmation is prompted and the batch starts at once.
C31_DeleteOnlyAfterConfirmation ==
  /\ Events("delete") # {} =>
       /\ toDelete # <<>> /\ ids = toDelete /\ ~opts.dryRun
       /\ \/ opts.force
          \/ \E k \in Events("confirmed") :
               log[k].yes /\ \A d \in Events("delete") : k < d
  /\ opts.force => (ConfirmPrompts = {} /\ Events("confirmed") = {})
  /\ (opts.force /\ toDelete # <<>> /\ ~opts.dryRun) => calls = 1
  /\ Declined => (Events("delete") = {} /\ calls = 0 /\ pc = "exited" /\ exitCode = 0)
  /\ toDelete = <<>> => (Events("delete") = {} /\ calls = 0)

C31_Witness ==
  /\ Declined /\ ~opts.force /\ ~opts.all /\ Len(toDelete) = 2 /\ pc = "exited"

\* --------------------------------------------------------------- C32 -----
\* The counts the progress callback was invoked with, in order.
RECURSIVE ProgressCounts(_)
ProgressCounts(lg) ==
  IF lg = <<>> THEN <<>>
  ELSE (IF Head(lg).ev = "progress" THEN <<Head(lg).completed>> ELSE <<>>)
         \o ProgressCounts(Tail(lg))
\* The entries of failed whose identifier stands before position p of an
\* input without repetition.
FailedBefore(p) ==
  {f \in DOMAIN failed : \E q \in 1..(p - 1) : ids[q] = failed[f].id}

\* C32: the count passed to the progress callback is the 1-based input
\* position of the identifier just succeeded, failed identifiers counted
\* in: the counts of a batch increase strictly, never exceed total, and the
\* j-th count exceeds j, the number of successes so far, by the number of
\* identifiers that failed before it.
C32_CountIsInputPosition ==
  LET cs == ProgressCounts(log)
  IN /\ Len(cs) = Len(success)
     /\ \A j \in 1..Len(cs) :
          /\ cs[j] \in j..Len(ids) /\ ids[cs[j]] = success[j]
          /\ j > 1 => cs[j - 1] < cs[j]
          /\ Distinct(ids) => cs[j] = j + Cardinality(FailedBefore(cs[j]))
     /\ \A k \in Events("progress") : log[k].total = Len(ids)

C32_Witness ==
  /\ pc = "done" /\ ids = <<1, 2>> /\ FailedIds = {1} /\ success = <<2>>
  /\ ProgressCounts(log) = <<2>>

\* --------------------------------------------------------------- C33 -----
\* C33: a batch routine called with an empty identifier list returns an
\* empty report at once: no request is issued and answered, no pause or
\* backoff wait is taken and the progress callback is never invoked.
C33_EmptyInputDoesNothing ==
  (calls > 0 /\ ids = <<>>) =>
    /\ pc = "done" /\ success = <<>> /\ failed = <<>>
    /\ log = <<>> /\ faults = 0 /\ attempt = 0 /\ i = 0

C33_Witness ==
  /\ calls = 1 /\ ids = <<>> /\ routine = "deleteDeployments" /\ pc = "done"
  /\ success = <<>> /\ failed = <<>> /\ log = <<>>

====
